---- MODULE Spec2Model ----
(***************************************************************************)
(* EZREC back end: a model of the recording controller (main.py,           *)
(* EZRECMain) and of the threaded camera service (src/camera.py,           *)
(* src/camera_interface.py, src/orchestrator.py, src/utils.py).            *)
(*                                                                         *)
(* Time is counted in seconds.  A booking carries a date (a day number)    *)
(* and two times of day, as the rows of the bookings table do.             *)
(***************************************************************************)
EXTENDS Integers, Sequences, FiniteSets, TLC

VARIABLES
    \* ---- EZRECMain (main.py) ----
    now,               \* wall clock, seconds
    tickTime,          \* wall clock read by the latest main_loop iteration
    store,             \* rows of the remote bookings table
    recording_active,  \* EZRECMain.recording_active
    current_booking,   \* EZRECMain.current_booking
    camera_process,    \* EZRECMain.camera_process (the Picamera2 object)
    files,             \* *.mp4 in recordings_dir, oldest first
    blobs,             \* objects in the storage bucket(s)
    videos,            \* rows of the remote videos table, per recording
    removed,           \* bookings this program deleted from the table
    sessionState,      \* state of the recording session of each booking
    startsInTick,      \* starts that succeeded in the latest iteration
    startFailed,       \* bookings whose start_booking_recording has raised
    lastProcess,       \* outcome of the latest process_completed_recording
    faults,            \* failures injected so far
    \* ---- EZRECOrchestrator and CameraService (src/) ----
    clock,             \* wall clock of the threaded service, minutes
    current_booking_file, \* temp/current_booking.json
    is_recording,      \* CameraService.is_recording
    interface,         \* the CameraInterface: recording, recording_path, camera_type
    file_booking_map,  \* CameraService.file_booking_map, its keys
    upload_queue,      \* CameraService.upload_queue
    queue_file,        \* temp/upload_queue.json
    map_file,          \* temp/file_booking_map.json
    worker,            \* the upload worker threads: position and task in hand
    completed,         \* bookings whose remote status is "completed"
    uploadCount,       \* blob uploads that succeeded, per recording
    stop_ret,          \* values returned by the stop calls of the session
    lastAttempt,       \* the latest upload attempt and how it ended
    restarts,          \* process restarts so far
    attemptsMade       \* upload attempts begun, per recording

mainVars == <<now, tickTime, store, recording_active, current_booking,
              camera_process, files, blobs, videos, removed, sessionState,
              startsInTick, startFailed, lastProcess, faults>>

svcVars == <<clock, current_booking_file, is_recording, interface,
             file_booking_map, upload_queue, queue_file, map_file, worker,
             completed, uploadCount, stop_ret, lastAttempt, restarts,
             attemptsMade>>

\* the queue file while it is being written
VARIABLES
    saving             \* the list that _save_upload_queue(queue) is dumping

\* the shutdown of the camera service
VARIABLES
    stop_event,        \* CameraService.stop_event is set
    exited             \* the process of the service has ended

shutVars == <<stop_event, exited>>

\* the run and the shutdown of EZRECMain
VARIABLES
    is_running,          \* EZRECMain.is_running, with stop_event not set
    main_pc,             \* where main() is: "start", "loop" or "exited"
    orchestrator_status, \* system_status["orchestrator_status"]
    remote_status        \* status of the system_status row in the database

sigVars == <<is_running, main_pc, orchestrator_status, remote_status>>

\* the worker threads of EZRECOrchestrator
VARIABLES
    error_count,             \* EZRECOrchestrator.error_count
    orchestrator_stop_event, \* EZRECOrchestrator.stop_event is set
    orchestrator_is_running, \* EZRECOrchestrator.is_running
    status_pc,               \* where status_worker is in its cycle
    camera_stalled           \* the capture device does not answer

supVars == <<error_count, orchestrator_stop_event, orchestrator_is_running,
             status_pc, camera_stalled>>

\* calls of the camera API from outside the worker threads
VARIABLES
    start_ret,         \* what the start_recording calls made while a
                       \* recording was in progress have returned
    system_status,     \* the row of the system_status table, as far as
                       \* update_system_status of utils writes it
    stop_pc            \* where each thread that calls
                       \* CameraService.stop_recording is in its call

callVars == <<start_ret, system_status, stop_pc>>

extVars == <<saving, shutVars, sigVars, supVars, callVars>>

vars == <<mainVars, svcVars, extVars>>

None == "none"

Bookings == {"b1", "b2", "b3"}

\* ---- program constants ----
max_errors == 50
SecondsPerDay == 86400
PreStartWindow == 60
TickSleep == 2
UPLOAD_RETRY_COUNT == 3

\* ---- bounds of the model ----
MaxJitter == 1
MaxFaults == 2
Horizon == 90

\* The rows the bookings table can hold: b1 and b2 overlap, b2 starts
\* later; b3 ends in the last second of the day.
BookingData ==
    [b \in Bookings |->
        CASE b = "b1" -> [date |-> 0, start_time |-> 100, end_time |-> 110]
          [] b = "b2" -> [date |-> 0, start_time |-> 104, end_time |-> 114]
          [] OTHER    -> [date |-> 0, start_time |-> 86390, end_time |-> 86399]]

StartInstants == {36, 86326}

WindowStart(b) == BookingData[b].date * SecondsPerDay + BookingData[b].start_time
WindowEnd(b) == BookingData[b].date * SecondsPerDay + BookingData[b].end_time

TimeOfDay(t) == t % SecondsPerDay
Today(t) == t \div SecondsPerDay

Perms(S) ==
    {f \in [1..Cardinality(S) -> S] : \A i, j \in 1..Cardinality(S) : f[i] = f[j] => i = j}

SeqToSet(s) == {s[i] : i \in 1..Len(s)}

RemoveFromSeq(s, x) == SelectSeq(s, LAMBDA y : y # x)

\* get_upcoming_bookings: the rows of today, [] when the query fails
get_upcoming_bookings(fetch_ok) ==
    IF fetch_ok THEN {b \in store : BookingData[b].date = Today(now)} ELSE {}

\* should_start_recording without its test of recording_active
should_start_recording_unguarded(booking, active) ==
    LET start_diff == TimeOfDay(now) - BookingData[booking].start_time
        end_diff == TimeOfDay(now) - BookingData[booking].end_time
    IN (-PreStartWindow <= start_diff /\ start_diff <= 0)
       \/ (start_diff >= 0 /\ end_diff <= 0)

\* should_start_recording without its active_period branch
should_start_recording_prestart_only(booking, active) ==
    IF active THEN FALSE
    ELSE LET start_diff == TimeOfDay(now) - BookingData[booking].start_time
         IN -PreStartWindow <= start_diff /\ start_diff <= 0

\* should_start_recording without the end of the window in active_period
should_start_recording_no_end(booking, active) ==
    IF active THEN FALSE
    ELSE LET start_diff == TimeOfDay(now) - BookingData[booking].start_time
             pre_start_window == -PreStartWindow <= start_diff /\ start_diff <= 0
             active_period == start_diff >= 0
         IN pre_start_window \/ active_period

\* should_start_recording
should_start_recording(booking, active) ==
    IF active THEN FALSE
    ELSE LET start_diff == TimeOfDay(now) - BookingData[booking].start_time
             end_diff == TimeOfDay(now) - BookingData[booking].end_time
             pre_start_window == -PreStartWindow <= start_diff /\ start_diff <= 0
             active_period == start_diff >= 0 /\ end_diff <= 0
         IN pre_start_window \/ active_period

\* should_stop_recording
should_stop_recording(booking) ==
    TimeOfDay(now) >= BookingData[booking].end_time

StartOutcomes == {"ok", "nofile", "raise"}

\* start_booking_recording that sets its status before the camera is
\* started and has no handle_recording_error
start_booking_recording_no_reset(booking, out, st) ==
    IF out = "raise"
    THEN [st EXCEPT !.recording_active = TRUE,
                    !.current_booking = booking,
                    !.sessionState[booking] = "Failed",
                    !.attempted = @ \cup {booking},
                    !.failed_starts = @ \cup {booking},
                    !.used = @ + 1]
    ELSE [st EXCEPT !.recording_active = TRUE,
                    !.current_booking = booking,
                    !.camera_process = booking,
                    !.files = IF out = "ok" /\ booking \notin SeqToSet(@)
                              THEN Append(@, booking) ELSE @,
                    !.sessionState[booking] = "Active",
                    !.attempted = @ \cup {booking},
                    !.starts = @ + 1,
                    !.used = @ + (IF out = "ok" THEN 0 ELSE 1)]

\* start_booking_recording (with start_picamera2_recording and
\* handle_recording_error) on the controller state st
start_booking_recording(booking, out, st) ==
    IF out = "raise"
    THEN [st EXCEPT !.recording_active = FALSE,
                    !.current_booking = None,
                    !.sessionState[booking] = "Failed",
                    !.attempted = @ \cup {booking},
                    !.failed_starts = @ \cup {booking},
                    !.used = @ + 1]
    ELSE [st EXCEPT !.recording_active = TRUE,
                    !.current_booking = booking,
                    !.camera_process = booking,
                    !.files = IF out = "ok" /\ booking \notin SeqToSet(@)
                              THEN Append(@, booking) ELSE @,
                    !.sessionState[booking] = "Active",
                    !.attempted = @ \cup {booking},
                    !.starts = @ + 1,
                    !.used = @ + (IF out = "ok" THEN 0 ELSE 1)]

\* the for loop of main_loop over the rows in the order the store gave
RECURSIVE StartLoop(_, _, _)
StartLoop(order, outs, st) ==
    IF order = <<>> THEN st
    ELSE LET booking == Head(order)
             st2 == IF should_start_recording(booking, st.recording_active)
                    THEN start_booking_recording(booking, outs[booking], st)
                    ELSE st
         IN StartLoop(Tail(order), outs, st2)

UploadOutcomes == {"ok", "no_blob", "blob_only", "alt_bucket"}

StopOutcomes ==
    [cam : {"ok", "raise"}, upload : UploadOutcomes,
     remove : {"ok", "fail"}, unlink : {"ok", "fail"}]

\* upload_video_to_storage returns True
UploadSucceeded(up) == up \in {"ok", "alt_bucket"}

\* process_completed_recording(booking, recording_path) with
\* upload_video_to_storage, remove_booking and cleanup_local_recording
process_completed_recording(booking, path, so, st) ==
    LET stored == so.upload # "no_blob"
        success == UploadSucceeded(so.upload)
    IN [st EXCEPT
          !.blobs = IF stored THEN @ \cup {path} ELSE @,
          !.videos[path] = IF so.upload = "ok" THEN @ + 1 ELSE @,
          !.store = IF success /\ so.remove = "ok" THEN @ \ {booking} ELSE @,
          !.removed = IF success /\ so.remove = "ok" THEN @ \cup {booking} ELSE @,
          !.files = IF success /\ so.unlink = "ok" THEN RemoveFromSeq(@, path) ELSE @,
          !.lastProcess = [booking |-> booking, path |-> path,
                           upload |-> so.upload, remove |-> so.remove,
                           unlink |-> so.unlink]]

\* stop_booking_recording
stop_booking_recording(so, st) ==
    LET booking == st.current_booking
        matching == booking \in SeqToSet(st.files)
        st1 == [st EXCEPT !.camera_process = IF so.cam = "ok" THEN None ELSE @]
        st2 == IF matching
               THEN process_completed_recording(booking, booking, so, st1)
               ELSE IF st1.files # <<>>
               THEN process_completed_recording(booking, st1.files[Len(st1.files)], so, st1)
               ELSE [st1 EXCEPT
                       !.store = IF so.remove = "ok" THEN @ \ {booking} ELSE @,
                       !.removed = IF so.remove = "ok" THEN @ \cup {booking} ELSE @]
    IN [st2 EXCEPT !.recording_active = FALSE,
                   !.current_booking = None,
                   !.sessionState[booking] =
                       IF st1.files # <<>> /\ so.cam = "ok" THEN "Finalized" ELSE "Failed"]

\* the failures a stop outcome stands for
StopFaults(so, st) ==
    LET hasFile == st.files # <<>>
    IN (IF so.cam = "raise" THEN 1 ELSE 0)
       + (IF hasFile /\ so.upload # "ok" THEN 1 ELSE 0)
       + (IF so.remove = "fail" THEN 1 ELSE 0)
       + (IF so.unlink = "fail" THEN 1 ELSE 0)

\* the parts of a stop outcome that the stop does not reach are "ok"
StopCanonical(so, st) ==
    LET hasFile == st.files # <<>>
    IN /\ ~hasFile => so.upload = "ok" /\ so.unlink = "ok"
       /\ (hasFile /\ ~UploadSucceeded(so.upload)) => so.remove = "ok" /\ so.unlink = "ok"

ControllerState ==
    [recording_active |-> recording_active, current_booking |-> current_booking,
     camera_process |-> camera_process, files |-> files, blobs |-> blobs,
     videos |-> videos, store |-> store, removed |-> removed,
     sessionState |-> sessionState, lastProcess |-> lastProcess,
     attempted |-> {}, failed_starts |-> {}, starts |-> 0, used |-> 0]

Install(st, extra, jitter) ==
    /\ faults + st.used + extra <= MaxFaults
    /\ faults' = faults + st.used + extra
    /\ recording_active' = st.recording_active
    /\ current_booking' = st.current_booking
    /\ camera_process' = st.camera_process
    /\ files' = st.files
    /\ blobs' = st.blobs
    /\ videos' = st.videos
    /\ store' = st.store
    /\ removed' = st.removed
    /\ sessionState' = st.sessionState
    /\ lastProcess' = st.lastProcess
    /\ startsInTick' = st.starts
    /\ startFailed' = startFailed \cup st.failed_starts
    /\ tickTime' = now
    /\ now' = now + TickSleep + jitter

NoProcess == [booking |-> None, path |-> None, upload |-> None,
              remove |-> None, unlink |-> None]

\* the query of an iteration fails only while failures are left to inject
FetchResults == IF faults < MaxFaults THEN BOOLEAN ELSE {TRUE}

\* the rows of this iteration that pass the time test of
\* should_start_recording; none while a recording is active
Eligible(upcoming) ==
    {b \in upcoming : should_start_recording(b, recording_active)}

\* one iteration of main_loop, the sleep at its end included
MainLoopTick ==
    /\ main_pc = "loop"
    /\ is_running
    /\ \E t \in StartInstants : t <= now /\ now <= t + Horizon
    /\ UNCHANGED <<svcVars, extVars>>
    /\ \E fetch_ok \in FetchResults, jitter \in 0..MaxJitter :
       LET upcoming == get_upcoming_bookings(fetch_ok)
           st0 == [ControllerState EXCEPT !.used = IF fetch_ok THEN 0 ELSE 1] IN
       \E order \in Perms(Eligible(upcoming)),
          outs \in [Eligible(upcoming) -> StartOutcomes] :
       LET st == StartLoop(order, outs, st0) IN
         /\ \A b \in Eligible(upcoming) \ st.attempted : outs[b] = "ok"
         /\ faults + st.used <= MaxFaults
         /\ IF st.current_booking # None /\ st.recording_active
               /\ should_stop_recording(st.current_booking)
            THEN \E so \in {x \in StopOutcomes : StopCanonical(x, st)} :
                   Install(stop_booking_recording(so, st), StopFaults(so, st), jitter)
            ELSE Install(st, 0, jitter)

(***************************************************************************)
(* The threaded service: EZRECOrchestrator (src/orchestrator.py) with      *)
(* CameraService (src/camera.py), CameraInterface (src/camera_interface.py)*)
(* and the helpers of src/utils.py.  recording_worker reads start_time and *)
(* end_time as %H:%M, so this clock counts minutes.                        *)
(***************************************************************************)
SvcBookingData ==
    [b \in Bookings |->
        CASE b = "b1" -> [start_time |-> 1, end_time |-> 3]
          [] b = "b3" -> [start_time |-> 4, end_time |-> 5]
          [] OTHER    -> [start_time |-> 2, end_time |-> 4]]

\* the bookings of this camera in the service's runs
SvcBookings == {"b1", "b2"}

\* ---- bounds of the model ----
MaxClock == 5
MaxSvcFaults == 1
MaxRestarts == 1
MaxQueue == 2
MaxStopCalls == 2
MaxStartCalls == 2

\* a recording is known by its file name or by its path in TEMP_DIR
NameKey(b) == <<"name", b>>
PathKey(b) == <<"path", b>>

FreshInterface == [recording |-> FALSE, recording_path |-> None, camera_type |-> "picamera2"]

Task(file_path, booking_id) == [file_path |-> file_path, booking_id |-> booking_id]

NoTask == Task(None, None)

IdleWorker == [pc |-> "idle", task |-> NoTask]

\* the upload worker threads: the one CameraService.__init__ starts, and a
\* second one for the runs in which _start_upload_worker started two
Workers == {"w1", "w2"}

UploadWorker == "w1"

NoAttempt == [task |-> NoTask, failed |-> None]

\* the attempts made for a task, as far as the task records them: the
\* tuples of upload_queue hold a path and a booking id
TaskAttempts(task) == IF "attempts" \in DOMAIN task THEN task.attempts ELSE 0

\* the tasks of a sequence of tasks that are for recording f
TasksFor(f, queue) == {i \in 1..Len(queue) : queue[i].file_path = f}

\* temp/upload_queue.json: not there, cut to nothing or to a part by an
\* open(.., 'w') whose json.dump did not finish, or holding a list
AbsentFile == [state |-> "absent", items |-> <<>>]
TruncatedFile == [state |-> "truncated", items |-> <<>>]
WrittenFile(queue) == [state |-> "written", items |-> queue]

\* the threads that call CameraService.stop_recording: the main thread in
\* EZRECOrchestrator.stop, and recording_worker when the booking has ended
StopThreads == {"shutdown", "recording"}

\* the system_status row before any update_system_status, and after one
\* that was called with is_recording = r
NoSnapshot == [stored |-> FALSE, is_recording |-> FALSE]
Snapshot(r) == [stored |-> TRUE, is_recording |-> r]

\* utils.update_system_status(is_recording=r, ..): the upsert of the row, or
\* False with the row as it was when the upsert fails
update_system_status(r, stored, row) == IF stored THEN Snapshot(r) ELSE row

\* no _save_upload_queue(queue) is between its open and its close
NotSaving == [open |-> FALSE, queue |-> <<>>]

\* tuple(item) for an item of the queue file: the file holds the objects
\* that _add_to_upload_queue appends, and the tuple of an object is its keys
tuple(item) == Task("file_path", "booking_id")

\* _load_upload_queue: one task per item of the file; a file that json.load
\* rejects is logged and the queue is empty
load_upload_queue(file) ==
    IF file.state # "written" THEN <<>>
    ELSE [i \in 1..Len(file.items) |-> tuple(file.items[i])]

\* _get_upload_queue: the list in the file, [] when there is none or when
\* json.load rejects it
get_upload_queue(file) == IF file.state # "written" THEN <<>> ELSE file.items

\* _load_file_booking_map
load_file_booking_map(file) == IF file = "absent" THEN {} ELSE file

\* the in-memory state of the service, as the operators below transform it
ServiceState ==
    [is_recording |-> is_recording, interface |-> interface,
     file_booking_map |-> file_booking_map, upload_queue |-> upload_queue,
     current_booking_file |-> current_booking_file, files |-> files,
     sessionState |-> sessionState, stop_ret |-> stop_ret, used |-> 0]

\* CameraInterface._is_camera_ready
is_camera_ready(iface) == iface.camera_type # None

\* CameraService.start_recording with CameraInterface.start_recording
start_recording(booking, out, sv) ==
    IF sv.is_recording THEN sv
    ELSE IF sv.interface.recording
    THEN [sv EXCEPT !.is_recording = TRUE,
                    !.file_booking_map = @ \cup {NameKey(booking)}]
    ELSE IF ~is_camera_ready(sv.interface) THEN sv
    ELSE IF out = "raise"
    THEN [sv EXCEPT !.interface.recording_path = booking,
                    !.sessionState[booking] = "Failed",
                    !.used = 1]
    ELSE [sv EXCEPT !.interface.recording_path = booking,
                    !.interface.recording = TRUE,
                    !.is_recording = TRUE,
                    !.file_booking_map = @ \cup {NameKey(booking)},
                    !.files = IF out = "ok" /\ booking \notin SeqToSet(@)
                              THEN Append(@, booking) ELSE @,
                    !.sessionState[booking] = "Active",
                    !.stop_ret = <<>>,
                    !.used = IF out = "ok" THEN 0 ELSE 1]

\* CameraInterface.stop_recording: the interface after the call, and the
\* path it returns
interface_stop_recording(iface, out, onDisk) ==
    IF ~iface.recording THEN [interface |-> iface, path |-> None]
    ELSE [interface |-> [iface EXCEPT !.recording = FALSE],
          path |-> IF out = "ok" /\ iface.recording_path \in onDisk
                   THEN iface.recording_path ELSE None]

\* CameraInterface.release
release(iface) == [iface EXCEPT !.recording = FALSE, !.camera_type = None]

\* CameraService.add_to_upload_queue: the put; the save that follows calls
\* _save_upload_queue() without its argument and raises TypeError, so the
\* lines after it do not run
add_to_upload_queue(file_path, booking_id, queue) ==
    Append(queue, Task(file_path, booking_id))

\* CameraService.stop_recording without its test of is_recording
stop_recording_unguarded(out, sv) ==
    LET r == interface_stop_recording(sv.interface, out, SeqToSet(sv.files))
    IN [sv EXCEPT
          !.is_recording = FALSE,
          !.interface = release(r.interface),
          !.current_booking_file = None,
          !.stop_ret = Append(@, [ok |-> TRUE, path |-> r.path]),
          !.used = IF out = "ok" THEN 0 ELSE 1]

\* CameraService.stop_recording
stop_recording(out, sv) ==
    IF ~sv.is_recording
    THEN [sv EXCEPT !.stop_ret = Append(@, [ok |-> FALSE, path |-> None])]
    ELSE LET r == interface_stop_recording(sv.interface, out, SeqToSet(sv.files))
             raw_video_path == r.path
             booking == sv.interface.recording_path
             queued == raw_video_path # None /\ PathKey(raw_video_path) \in sv.file_booking_map
         IN [sv EXCEPT
               !.is_recording = FALSE,
               !.interface = release(r.interface),
               !.upload_queue = IF queued
                                THEN add_to_upload_queue(raw_video_path, raw_video_path, @)
                                ELSE @,
               !.current_booking_file = None,
               !.sessionState[booking] =
                   IF @ = "Active"
                   THEN (IF raw_video_path # None THEN "Finalized" ELSE "Failed")
                   ELSE @,
               !.stop_ret = Append(@, [ok |-> TRUE, path |-> raw_video_path]),
               !.used = IF out = "ok" THEN 0 ELSE 1]

\* n more steps fail
Faulted(n) == faults + n <= MaxSvcFaults /\ faults' = faults + n

InstallService(sv) ==
    /\ Faulted(sv.used)
    /\ is_recording' = sv.is_recording
    /\ interface' = sv.interface
    /\ file_booking_map' = sv.file_booking_map
    /\ upload_queue' = sv.upload_queue
    /\ current_booking_file' = sv.current_booking_file
    /\ files' = sv.files
    /\ sessionState' = sv.sessionState
    /\ stop_ret' = sv.stop_ret

\* utils.load_booking: end_time is %H:%M, which datetime.fromisoformat
\* rejects, so the expiry test never removes the file
load_booking == current_booking_file

\* utils.get_next_booking: the first confirmed row, by start time, that has
\* not started yet
get_next_booking(fetch_ok) ==
    LET upcoming == {b \in store \ completed : SvcBookingData[b].start_time >= clock}
    IN IF ~fetch_ok \/ upcoming = {} THEN None
       ELSE CHOOSE b \in upcoming :
              \A c \in upcoming : SvcBookingData[b].start_time <= SvcBookingData[c].start_time

\* one iteration of scheduler_worker
SchedulerTick ==
    /\ UNCHANGED <<attemptsMade, extVars>>
    /\ \E fetch_ok \in BOOLEAN :
         /\ current_booking_file' =
              IF load_booking = None THEN get_next_booking(fetch_ok)
              ELSE current_booking_file
    /\ UNCHANGED <<clock, is_recording, interface, file_booking_map, upload_queue,
                   queue_file, map_file, worker, completed, uploadCount,
                   stop_ret, lastAttempt, restarts>>
    /\ UNCHANGED <<now, tickTime, store, recording_active, current_booking,
                   camera_process, files, blobs, videos, removed, sessionState,
                   startsInTick, startFailed, lastProcess, faults>>

\* one iteration of recording_worker; complete_booking is not in utils, so
\* the import raises and the fallback removes the local booking file
RecordingTickSteps ==
    /\ \E out \in StartOutcomes :
       LET booking == load_booking
           sv == ServiceState IN
       IF booking = None
       THEN /\ out = "ok" \/ is_recording
            /\ out # "nofile"
            /\ InstallService(IF is_recording THEN stop_recording(out, sv) ELSE sv)
       ELSE IF SvcBookingData[booking].start_time <= clock
               /\ clock < SvcBookingData[booking].end_time
       THEN /\ out = "ok" \/ (~is_recording /\ ~interface.recording /\ is_camera_ready(interface))
            /\ InstallService(start_recording(booking, out, sv))
       ELSE IF clock >= SvcBookingData[booking].end_time
       THEN /\ out = "ok" \/ is_recording
            /\ out # "nofile"
            /\ InstallService([(IF is_recording THEN stop_recording(out, sv) ELSE sv)
                                 EXCEPT !.current_booking_file = None])
       ELSE /\ out = "ok"
            /\ InstallService(sv)
    /\ UNCHANGED <<clock, queue_file, map_file, worker, completed, uploadCount,
                   lastAttempt, restarts>>
    /\ UNCHANGED <<now, tickTime, store, recording_active, current_booking,
                   camera_process, blobs, videos, removed, startsInTick, startFailed, lastProcess>>

\* the iteration in the runs that do not follow the system_status row
RecordingTick ==
    /\ RecordingTickSteps
    /\ UNCHANGED <<attemptsMade, extVars>>

\* the clock of the service advances
ClockTick ==
    /\ UNCHANGED <<attemptsMade, extVars>>
    /\ clock < MaxClock
    /\ clock' = clock + 1
    /\ UNCHANGED <<current_booking_file, is_recording, interface, file_booking_map,
                   upload_queue, queue_file, map_file, worker, completed,
                   uploadCount, stop_ret, lastAttempt, restarts>>
    /\ UNCHANGED mainVars

\* what the four unchanged-lists of the worker steps share
workerFrame == <<clock, current_booking_file, is_recording, interface, stop_ret,
                 restarts, queue_file>>

mainFrame == <<now, tickTime, store, recording_active, current_booking,
               camera_process, removed, sessionState, startsInTick, startFailed, lastProcess>>

\* the except branch of upload_worker: the task is put back, then
\* _save_upload_queue() raises TypeError and the outer handler sleeps
Requeue(w, step) ==
    /\ upload_queue' = Append(upload_queue, worker[w].task)
    /\ worker' = [worker EXCEPT ![w] = IdleWorker]
    /\ lastAttempt' = [task |-> worker[w].task, failed |-> step]

\* upload_queue.get that leaves the task in the queue
WorkerDequeue_peek(w) ==
    /\ ~stop_event
    /\ ~exited
    /\ UNCHANGED extVars
    /\ worker[w].pc = "idle"
    /\ upload_queue # <<>>
    /\ worker' = [worker EXCEPT ![w] =
                    IF Head(upload_queue).file_path \in SeqToSet(files)
                    THEN [pc |-> "got", task |-> Head(upload_queue)]
                    ELSE IdleWorker]
    /\ lastAttempt' = [task |-> Head(upload_queue), failed |-> None]
    /\ UNCHANGED <<workerFrame, mainFrame, files, blobs, videos, faults,
                   file_booking_map, map_file, completed, uploadCount,
                   upload_queue>>

\* upload_worker: upload_queue.get and the os.path.exists test
WorkerDequeue(w) ==
    /\ ~stop_event
    /\ ~exited
    /\ UNCHANGED extVars
    /\ worker[w].pc = "idle"
    /\ upload_queue # <<>>
    /\ upload_queue' = Tail(upload_queue)
    /\ worker' = [worker EXCEPT ![w] =
                    IF Head(upload_queue).file_path \in SeqToSet(files)
                    THEN [pc |-> "got", task |-> Head(upload_queue)]
                    ELSE IdleWorker]
    /\ lastAttempt' = [task |-> Head(upload_queue), failed |-> None]
    /\ UNCHANGED <<workerFrame, mainFrame, files, blobs, videos, faults,
                   file_booking_map, map_file, completed, uploadCount>>

\* the dequeue, in the runs that do not count the attempts
WorkerGet(w) ==
    /\ WorkerDequeue(w)
    /\ UNCHANGED <<attemptsMade, extVars>>

\* the dequeue, counting the attempt it begins when the file is on disk
WorkerAttempt(w) ==
    /\ WorkerDequeue(w)
    /\ attemptsMade' =
         IF Head(upload_queue).file_path \in SeqToSet(files)
         THEN [attemptsMade EXCEPT ![Head(upload_queue).file_path] =
                  IF @ <= UPLOAD_RETRY_COUNT THEN @ + 1 ELSE @]
         ELSE attemptsMade

\* upload_worker: supabase.storage.from_("recordings").upload; an upload to
\* a key that already holds a blob is rejected or overwrites, as the bucket
\* is configured
WorkerUploadBlob(w) ==
    /\ ~exited
    /\ UNCHANGED <<attemptsMade, extVars>>
    /\ worker[w].pc = "got"
    /\ LET f == worker[w].task.file_path IN
       \/ /\ blobs' = blobs \cup {f}
          /\ uploadCount' = [uploadCount EXCEPT ![f] = @ + 1]
          /\ worker' = [worker EXCEPT ![w].pc = "uploaded"]
          /\ UNCHANGED <<upload_queue, lastAttempt, faults>>
       \/ /\ Faulted(IF f \in blobs THEN 0 ELSE 1)
          /\ Requeue(w, "blob")
          /\ UNCHANGED <<blobs, uploadCount>>
    /\ UNCHANGED <<workerFrame, mainFrame, files, videos, file_booking_map,
                   map_file, completed>>

\* upload_worker: supabase.table("videos").insert
WorkerInsertVideo(w) ==
    /\ ~exited
    /\ UNCHANGED <<attemptsMade, extVars>>
    /\ worker[w].pc = "uploaded"
    /\ \/ /\ videos' = [videos EXCEPT ![worker[w].task.file_path] = @ + 1]
          /\ worker' = [worker EXCEPT ![w].pc = "inserted"]
          /\ UNCHANGED <<upload_queue, lastAttempt, faults>>
       \/ /\ Faulted(1)
          /\ Requeue(w, "insert")
          /\ UNCHANGED videos
    /\ UNCHANGED <<workerFrame, mainFrame, files, blobs, file_booking_map,
                   map_file, completed, uploadCount>>

\* upload_worker: remove_booking_for_file, which logs and swallows its own
\* errors, then os.remove of the local file
WorkerFinishSteps(w) ==
    /\ ~exited
    /\ worker[w].pc = "inserted"
    /\ LET f == worker[w].task.file_path
           booking_id == worker[w].task.booking_id IN
       \E remove_ok \in BOOLEAN, unlink_ok \in BOOLEAN :
         /\ Faulted((IF remove_ok THEN 0 ELSE 1) + (IF unlink_ok THEN 0 ELSE 1))
         /\ IF remove_ok
            THEN /\ completed' = completed \cup {booking_id}
                 /\ current_booking_file' = None
                 /\ file_booking_map' = file_booking_map \ {PathKey(f)}
                 /\ map_file' = IF PathKey(f) \in file_booking_map
                                THEN file_booking_map \ {PathKey(f)} ELSE map_file
            ELSE UNCHANGED <<completed, current_booking_file, file_booking_map, map_file>>
         /\ IF unlink_ok
            THEN /\ files' = RemoveFromSeq(files, f)
                 /\ worker' = [worker EXCEPT ![w] = IdleWorker]
                 /\ lastAttempt' = [task |-> worker[w].task,
                                    failed |-> IF remove_ok THEN None ELSE "booking"]
                 /\ UNCHANGED upload_queue
            ELSE /\ Requeue(w, "unlink")
                 /\ UNCHANGED files
    /\ UNCHANGED <<clock, is_recording, interface, stop_ret, restarts, queue_file>>
    /\ UNCHANGED <<mainFrame, blobs, videos, uploadCount>>

\* the end of an upload in the runs that do not follow the system_status row
WorkerFinish(w) ==
    /\ WorkerFinishSteps(w)
    /\ UNCHANGED <<attemptsMade, extVars>>

\* CameraService.add_to_upload_queue called for a recording on disk; the
\* TypeError of the save goes to the caller
AddToUploadQueue ==
    /\ ~exited
    /\ UNCHANGED <<attemptsMade, extVars>>
    /\ \E f \in SeqToSet(files) :
         /\ ~(interface.recording /\ interface.recording_path = f)
         /\ Len(upload_queue) < MaxQueue
         /\ \A i \in 1..Len(upload_queue) : upload_queue[i].file_path # f
         /\ \A w \in Workers : worker[w].task.file_path # f
         /\ upload_queue' = add_to_upload_queue(f, f, upload_queue)
    /\ UNCHANGED <<workerFrame, mainFrame, files, blobs, videos, faults,
                   file_booking_map, map_file, worker, completed, uploadCount,
                   lastAttempt>>

\* CameraService.stop_recording called again for the session of the latest
\* start (EZRECOrchestrator.stop, CameraService.stop, camera.main)
StopRecordingCall ==
    /\ UNCHANGED <<attemptsMade, extVars>>
    /\ interface.recording_path # None
    /\ Len(stop_ret) < MaxStopCalls
    /\ \E out \in {"ok", "raise"} :
         /\ out = "ok" \/ is_recording
         /\ InstallService(stop_recording(out, ServiceState))
    /\ UNCHANGED <<clock, queue_file, map_file, worker, completed, uploadCount,
                   lastAttempt, restarts>>
    /\ UNCHANGED <<now, tickTime, store, recording_active, current_booking,
                   camera_process, blobs, videos, removed, startsInTick, startFailed, lastProcess>>

\* the process is killed and started again: CameraService.__init__ and
\* start_camera; the disk and the remote store are as they were
Restart ==
    /\ UNCHANGED callVars
    /\ UNCHANGED attemptsMade
    /\ saving' = NotSaving
    /\ stop_event' = FALSE
    /\ exited' = FALSE
    /\ UNCHANGED <<sigVars, supVars>>
    /\ restarts < MaxRestarts
    /\ restarts' = restarts + 1
    /\ is_recording' = FALSE
    /\ interface' = FreshInterface
    /\ upload_queue' = load_upload_queue(queue_file)
    /\ file_booking_map' = load_file_booking_map(map_file)
    /\ worker' = [w \in Workers |-> IdleWorker]
    /\ stop_ret' = <<>>
    /\ lastAttempt' = NoAttempt
    /\ sessionState' = [b \in Bookings |->
                          IF sessionState[b] = "Active" THEN "Failed" ELSE sessionState[b]]
    /\ UNCHANGED <<clock, current_booking_file, queue_file, map_file, completed,
                   uploadCount>>
    /\ UNCHANGED <<now, tickTime, store, recording_active, current_booking,
                   camera_process, files, blobs, videos, removed, startsInTick, startFailed,
                   lastProcess, faults>>

\* process_and_queue_video, _add_to_upload_queue up to the open(queue_file,
\* 'w') of _save_upload_queue(queue): the file is truncated
SaveOpen ==
    /\ UNCHANGED callVars
    /\ ~exited
    /\ ~saving.open
    /\ \E f \in SeqToSet(files) :
         /\ TasksFor(f, get_upload_queue(queue_file)) = {}
         /\ Len(get_upload_queue(queue_file)) < MaxQueue
         /\ saving' = [open |-> TRUE,
                        queue |-> Append(get_upload_queue(queue_file), Task(f, f))]
    /\ queue_file' = TruncatedFile
    /\ UNCHANGED <<mainVars, clock, current_booking_file, is_recording,
                   interface, file_booking_map, upload_queue, map_file, worker,
                   completed, uploadCount, stop_ret, lastAttempt, restarts,
                   attemptsMade, shutVars, sigVars, supVars>>

\* json.dump(queue, f) of _save_upload_queue(queue) and the close
SaveDump ==
    /\ UNCHANGED callVars
    /\ ~exited
    /\ saving.open
    /\ queue_file' = WrittenFile(saving.queue)
    /\ saving' = NotSaving
    /\ UNCHANGED <<mainVars, clock, current_booking_file, is_recording,
                   interface, file_booking_map, upload_queue, map_file, worker,
                   completed, uploadCount, stop_ret, lastAttempt, restarts,
                   attemptsMade, shutVars, sigVars, supVars>>

\* CameraService.stop without stop_worker: a recording in progress is
\* stopped, and the interface is released
camera_service_stop(out, sv) ==
    LET stopped == IF sv.is_recording THEN stop_recording(out, sv) ELSE sv
    IN [stopped EXCEPT !.interface = release(@)]

\* CameraService.stop up to the join of stop_worker: stop_event is set, so
\* the worker takes no further task; the (None, None) that unblocks its get
\* is not a task and is left out of the queue
StopService ==
    /\ UNCHANGED callVars
    /\ ~exited
    /\ ~stop_event
    /\ stop_event' = TRUE
    /\ \E out \in {"ok", "raise"} :
         /\ out = "ok" \/ is_recording
         /\ InstallService(camera_service_stop(out, ServiceState))
    /\ UNCHANGED <<clock, queue_file, map_file, worker, completed, uploadCount,
                   lastAttempt, restarts, attemptsMade, saving, exited, sigVars,
                   supVars>>
    /\ UNCHANGED <<now, tickTime, store, recording_active, current_booking,
                   camera_process, blobs, videos, removed, startsInTick, startFailed, lastProcess>>

\* the end of the process after CameraService.stop: the join of stop_worker
\* has returned, or has timed out after 10 seconds with the worker, a daemon
\* thread, still in its attempt; the queue in memory is gone with the process
ProcessExit ==
    /\ UNCHANGED callVars
    /\ stop_event
    /\ ~exited
    /\ exited' = TRUE
    /\ UNCHANGED <<mainVars, svcVars, saving, stop_event, sigVars, supVars>>

InitService ==
    /\ clock = 0
    /\ current_booking_file = None
    /\ is_recording = FALSE
    /\ interface = FreshInterface
    /\ file_booking_map = {}
    /\ upload_queue = <<>>
    /\ queue_file = AbsentFile
    /\ saving = NotSaving
    /\ start_ret = <<>>
    /\ system_status = NoSnapshot
    /\ stop_pc = [t \in StopThreads |-> "idle"]
    /\ stop_event = FALSE
    /\ exited = FALSE
    /\ error_count = 0
    /\ orchestrator_stop_event = FALSE
    /\ orchestrator_is_running = TRUE
    /\ status_pc = "publish"
    /\ camera_stalled = FALSE
    /\ map_file = "absent"
    /\ worker = [w \in Workers |-> IdleWorker]
    /\ completed = {}
    /\ uploadCount = [b \in Bookings |-> 0]
    /\ stop_ret = <<>>
    /\ lastAttempt = NoAttempt
    /\ restarts = 0
    /\ attemptsMade = [b \in Bookings |-> 0]

InitMain ==
    /\ now \in StartInstants
    /\ tickTime = now
    /\ store \in SUBSET Bookings
    /\ recording_active = FALSE
    /\ current_booking = None
    /\ camera_process = None
    /\ files = <<>>
    /\ blobs = {}
    /\ videos = [b \in Bookings |-> 0]
    /\ removed = {}
    /\ sessionState = [b \in Bookings |-> "none"]
    /\ startsInTick = 0
    /\ startFailed = {}
    /\ lastProcess = NoProcess
    /\ faults = 0

\* start_main_controller has run: the status is "running", the status
\* updater is started and main_loop is entered; no row is stored yet
InitRunning ==
    /\ is_running = TRUE
    /\ main_pc = "loop"
    /\ orchestrator_status = "running"
    /\ remote_status = None

\* EZRECMain, the controller of main.py
Init == InitMain /\ InitService /\ InitRunning

Next == MainLoopTick

Spec == Init /\ [][Next]_vars

(***************************************************************************)
(* EZRECMain from its start to the end of its process: the main loop, the  *)
(* status updater thread, and the handler of SIGTERM and SIGINT.           *)
(***************************************************************************)
\* EZRECMain.__init__
InitStarting ==
    /\ is_running = FALSE
    /\ main_pc = "start"
    /\ orchestrator_status = "initializing"
    /\ remote_status = None

\* start_main_controller up to main_loop.  When it raises (the status
\* thread cannot be started) the status is set to "error" and main() calls
\* stop_controller, which finds no recording to stop, sets "stopped" in
\* system_status and returns; main() exits.  With both signals handled
\* this is the only way into stop_controller.
StartMainController ==
    /\ UNCHANGED callVars
    /\ main_pc = "start"
    /\ \E started \in BOOLEAN :
         IF started
         THEN /\ is_running' = TRUE
              /\ orchestrator_status' = "running"
              /\ main_pc' = "loop"
         ELSE /\ ~recording_active
              /\ is_running' = FALSE
              /\ orchestrator_status' = "stopped"
              /\ main_pc' = "exited"
    /\ UNCHANGED <<mainVars, svcVars, saving, shutVars, supVars, remote_status>>

\* _signal_handler
SignalHandler ==
    /\ UNCHANGED callVars
    /\ main_pc = "loop"
    /\ is_running
    /\ is_running' = FALSE
    /\ UNCHANGED <<mainVars, svcVars, saving, shutVars, supVars, main_pc,
                   orchestrator_status, remote_status>>

\* one iteration of status_loop: update_system_status_in_db upserts the row,
\* or fails, which is logged
StatusLoopTick ==
    /\ UNCHANGED callVars
    /\ main_pc = "loop"
    /\ is_running
    /\ \E stored \in BOOLEAN :
         remote_status' = IF stored THEN orchestrator_status ELSE remote_status
    /\ UNCHANGED <<mainVars, svcVars, saving, shutVars, supVars, is_running,
                   main_pc,
                   orchestrator_status>>

\* the while of main_loop finds is_running false: main_loop,
\* start_main_controller and main() return and the process ends, and with it
\* the status thread, a daemon
MainExit ==
    /\ UNCHANGED callVars
    /\ main_pc = "loop"
    /\ ~is_running
    /\ main_pc' = "exited"
    /\ UNCHANGED <<mainVars, svcVars, saving, shutVars, supVars, is_running,
                   orchestrator_status, remote_status>>

InitSignal == InitMain /\ InitService /\ InitStarting

NextSignal ==
    \/ StartMainController
    \/ MainLoopTick
    \/ StatusLoopTick
    \/ SignalHandler
    \/ MainExit

SpecSignal == InitSignal /\ [][NextSignal]_vars

\* the threaded service of src/
InitSvc ==
    /\ InitService
    /\ InitRunning
    /\ now = 0
    /\ tickTime = 0
    /\ store \in SUBSET SvcBookings
    /\ recording_active = FALSE
    /\ current_booking = None
    /\ camera_process = None
    /\ files = <<>>
    /\ blobs = {}
    /\ videos = [b \in Bookings |-> 0]
    /\ removed = {}
    /\ sessionState = [b \in Bookings |-> "none"]
    /\ startsInTick = 0
    /\ startFailed = {}
    /\ lastProcess = NoProcess
    /\ faults = 0

NextSvc ==
    \/ SchedulerTick
    \/ RecordingTick
    \/ ClockTick
    \/ WorkerGet(UploadWorker)
    \/ WorkerUploadBlob(UploadWorker)
    \/ WorkerInsertVideo(UploadWorker)
    \/ WorkerFinish(UploadWorker)
    \/ AddToUploadQueue
    \/ StopRecordingCall
    \/ Restart

SpecSvc == InitSvc /\ [][NextSvc]_vars

(***************************************************************************)
(* The camera API called while a recording is in progress.                 *)
(***************************************************************************)
\* CameraInterface.start_recording(filename) while self.recording: the
\* warning, and the path of the recording in progress is returned
interface_start_recording_held(iface) ==
    [interface |-> iface, ret |-> iface.recording_path]

\* CameraInterface.start_recording called by another client of the
\* interface while it records
InterfaceStartCall ==
    /\ ~exited
    /\ interface.recording
    /\ Len(start_ret) < MaxStartCalls
    /\ LET r == interface_start_recording_held(interface) IN
         /\ interface' = r.interface
         /\ start_ret' = Append(start_ret, [api |-> "interface", ok |-> TRUE,
                                            ret |-> r.ret])
    /\ UNCHANGED <<mainVars, clock, current_booking_file, is_recording,
                   file_booking_map, upload_queue, queue_file, map_file, worker,
                   completed, uploadCount, stop_ret, lastAttempt, restarts,
                   attemptsMade, saving, shutVars, sigVars, supVars,
                   system_status, stop_pc>>

\* CameraService.start_recording(booking) called while is_recording: the
\* warning and False
ServiceStartCall ==
    /\ ~exited
    /\ is_recording
    /\ Len(start_ret) < MaxStartCalls
    /\ \E booking \in SvcBookings :
         InstallService(start_recording(booking, "ok", ServiceState))
    /\ start_ret' = Append(start_ret, [api |-> "service", ok |-> FALSE,
                                       ret |-> None])
    /\ UNCHANGED <<clock, queue_file, map_file, worker, completed, uploadCount,
                   lastAttempt, restarts, attemptsMade, saving, shutVars,
                   sigVars, supVars, system_status, stop_pc>>
    /\ UNCHANGED <<now, tickTime, store, recording_active, current_booking,
                   camera_process, blobs, videos, removed, startsInTick,
                   startFailed, lastProcess>>

NextAcquire ==
    \/ SchedulerTick
    \/ RecordingTick
    \/ ClockTick
    \/ InterfaceStartCall
    \/ ServiceStartCall

SpecAcquire == InitSvc /\ [][NextAcquire]_vars

(***************************************************************************)
(* EZRECMain while reservations are cancelled in the remote table.         *)
(***************************************************************************)
\* a user cancels a reservation: its row leaves the bookings table; nothing
\* on the device is touched by that
CancelBooking ==
    /\ \E b \in store : store' = store \ {b}
    /\ UNCHANGED <<now, tickTime, recording_active, current_booking,
                   camera_process, files, blobs, videos, removed, sessionState,
                   startsInTick, startFailed, lastProcess, faults>>
    /\ UNCHANGED <<svcVars, extVars>>

NextCancel ==
    \/ MainLoopTick
    \/ CancelBooking

SpecCancel == Init /\ [][NextCancel]_vars

(***************************************************************************)
(* The upload path of CameraService on its own: recordings that were       *)
(* stopped lie on disk, add_to_upload_queue is called for them, and the    *)
(* upload workers drain the queue.                                         *)
(***************************************************************************)
\* the recordings on disk when the runs of the upload path begin
RecordedAtStart == {<<"b1">>, <<"b1", "b2">>}

InitUpload ==
    /\ InitService
    /\ InitRunning
    /\ now = 0
    /\ tickTime = 0
    /\ store = {}
    /\ recording_active = FALSE
    /\ current_booking = None
    /\ camera_process = None
    /\ files \in RecordedAtStart
    /\ blobs = {}
    /\ videos = [b \in Bookings |-> 0]
    /\ removed = {}
    /\ sessionState = [b \in Bookings |->
                         IF b \in SeqToSet(files) THEN "Finalized" ELSE "none"]
    /\ startsInTick = 0
    /\ startFailed = {}
    /\ lastProcess = NoProcess
    /\ faults = 0

NextUpload ==
    \/ AddToUploadQueue
    \/ \E w \in Workers : WorkerAttempt(w)
    \/ \E w \in Workers : WorkerUploadBlob(w)
    \/ \E w \in Workers : WorkerInsertVideo(w)
    \/ \E w \in Workers : WorkerFinish(w)

SpecUpload == InitUpload /\ [][NextUpload]_vars

(***************************************************************************)
(* The upload queue and its file: the in-memory queue with its one worker, *)
(* the writer of temp/upload_queue.json, and the process being killed and  *)
(* started again.                                                          *)
(***************************************************************************)
NextPersist ==
    \/ AddToUploadQueue
    \/ WorkerGet(UploadWorker)
    \/ WorkerUploadBlob(UploadWorker)
    \/ WorkerInsertVideo(UploadWorker)
    \/ WorkerFinish(UploadWorker)
    \/ SaveOpen
    \/ SaveDump
    \/ Restart

SpecPersist == InitUpload /\ [][NextPersist]_vars

(***************************************************************************)
(* The shutdown of the camera service while its upload worker runs.        *)
(***************************************************************************)
NextShutdown ==
    \/ AddToUploadQueue
    \/ WorkerGet(UploadWorker)
    \/ WorkerUploadBlob(UploadWorker)
    \/ WorkerInsertVideo(UploadWorker)
    \/ WorkerFinish(UploadWorker)
    \/ SaveOpen
    \/ SaveDump
    \/ StopService
    \/ ProcessExit

SpecShutdown == InitUpload /\ [][NextShutdown]_vars

(***************************************************************************)
(* The worker threads of EZRECOrchestrator and their error handling.       *)
(***************************************************************************)
Loops == {"scheduler", "recording", "status", "heartbeat"}

\* _handle_error with > in place of >=
handle_error_strict(count) ==
    [error_count |-> count + 1, shutdown |-> count + 1 > max_errors]

\* _handle_error: the count, and whether the threshold is reached
handle_error(count) ==
    [error_count |-> count + 1, shutdown |-> count + 1 >= max_errors]

\* the except branch of a worker: _handle_error, then the longer wait.  At
\* the threshold _handle_error calls stop() in the worker's thread: the stop
\* event is set and a recording is stopped, then the join of the thread with
\* itself raises RuntimeError, which stop() logs, so the camera service is
\* not stopped and is_running stays true; sys.exit(1) ends this thread only
LoopError(loop) ==
    /\ UNCHANGED callVars
    /\ ~orchestrator_stop_event
    /\ loop = "status" => status_pc \in {"publish", "check"}
    /\ LET h == handle_error(error_count) IN
         /\ error_count' = h.error_count
         /\ orchestrator_stop_event' = h.shutdown
         /\ \E out \in {"ok", "raise"} :
              /\ out = "ok" \/ (h.shutdown /\ is_recording)
              /\ InstallService(IF h.shutdown /\ is_recording
                                THEN stop_recording(out, ServiceState)
                                ELSE ServiceState)
    /\ status_pc' = IF loop = "status" THEN "wait" ELSE status_pc
    /\ UNCHANGED <<clock, queue_file, map_file, worker, completed, uploadCount,
                   lastAttempt, restarts, attemptsMade, saving, shutVars,
                   sigVars, orchestrator_is_running, camera_stalled>>
    /\ UNCHANGED <<now, tickTime, store, recording_active, current_booking,
                   camera_process, blobs, videos, removed, startsInTick, startFailed, lastProcess>>

\* status_worker: update_system_status, which stores the heartbeat row
StatusPublish ==
    /\ UNCHANGED callVars
    /\ ~orchestrator_stop_event
    /\ status_pc = "publish"
    /\ status_pc' = "check"
    /\ \E stored \in BOOLEAN :
         remote_status' = IF stored THEN "heartbeat" ELSE remote_status
    /\ UNCHANGED <<mainVars, svcVars, saving, shutVars, is_running, main_pc,
                   orchestrator_status, error_count, orchestrator_stop_event,
                   orchestrator_is_running, camera_stalled>>

\* status_worker: _perform_health_check calls camera.health_check, which
\* calls capture_frame when the camera is ready
StatusHealthCheck ==
    /\ UNCHANGED callVars
    /\ status_pc = "check"
    /\ status_pc' = IF is_camera_ready(interface) THEN "capture" ELSE "wait"
    /\ UNCHANGED <<mainVars, svcVars, saving, shutVars, sigVars, error_count,
                   orchestrator_stop_event, orchestrator_is_running,
                   camera_stalled>>

\* capture_frame returns, with a frame or without one
StatusCaptureReturn ==
    /\ UNCHANGED callVars
    /\ status_pc = "capture"
    /\ ~camera_stalled
    /\ status_pc' = "wait"
    /\ UNCHANGED <<mainVars, svcVars, saving, shutVars, sigVars, error_count,
                   orchestrator_stop_event, orchestrator_is_running,
                   camera_stalled>>

\* status_worker: stop_event.wait(STATUS_UPDATE_INTERVAL) and the while
StatusWait ==
    /\ UNCHANGED callVars
    /\ status_pc = "wait"
    /\ status_pc' = IF orchestrator_stop_event THEN "stopped" ELSE "publish"
    /\ UNCHANGED <<mainVars, svcVars, saving, shutVars, sigVars, error_count,
                   orchestrator_stop_event, orchestrator_is_running,
                   camera_stalled>>

\* the capture device stops answering, or answers again
CameraStall ==
    /\ UNCHANGED callVars
    /\ orchestrator_is_running
    /\ camera_stalled' = ~camera_stalled
    /\ UNCHANGED <<mainVars, svcVars, saving, shutVars, sigVars, error_count,
                   orchestrator_stop_event, orchestrator_is_running, status_pc>>

\* EZRECOrchestrator.stop in the main thread (the signal handler, the
\* finally of main): the stop event, the joins, CameraService.stop, the last
\* update_system_status, is_running false; main's while ends and the
\* process with it
OrchestratorStop ==
    /\ UNCHANGED callVars
    /\ orchestrator_is_running
    /\ orchestrator_stop_event' = TRUE
    /\ orchestrator_is_running' = FALSE
    /\ stop_event' = TRUE
    /\ exited' = TRUE
    /\ \E out \in {"ok", "raise"} :
         /\ out = "ok" \/ is_recording
         /\ InstallService(camera_service_stop(out, ServiceState))
    /\ \E stored \in BOOLEAN :
         remote_status' = IF stored THEN "not streaming" ELSE remote_status
    /\ UNCHANGED <<clock, queue_file, map_file, worker, completed, uploadCount,
                   lastAttempt, restarts, attemptsMade, saving, is_running,
                   main_pc, orchestrator_status, error_count, status_pc,
                   camera_stalled>>
    /\ UNCHANGED <<now, tickTime, store, recording_active, current_booking,
                   camera_process, blobs, videos, removed, startsInTick, startFailed, lastProcess>>

NextSup ==
    \/ \E loop \in Loops : LoopError(loop)
    \/ StatusPublish
    \/ StatusHealthCheck
    \/ StatusCaptureReturn
    \/ StatusWait
    \/ CameraStall
    \/ OrchestratorStop

SpecSup == InitSvc /\ [][NextSup]_vars

(***************************************************************************)
(* The orchestrator when a row of the bookings table carries a time that   *)
(* is not %H:%M.  get_next_booking compares start_time as text, so such a  *)
(* row is returned and saved like any other; in SvcBookingData its times   *)
(* give the place of its text in that comparison.                          *)
(***************************************************************************)
\* the bookings whose start_time or end_time datetime.strptime rejects
MalformedBookings == {"b3"}

\* a user books the camera: a confirmed row enters the bookings table
BookingInserted ==
    /\ \E b \in Bookings \ (store \cup completed) : store' = store \cup {b}
    /\ UNCHANGED <<now, tickTime, recording_active, current_booking,
                   camera_process, files, blobs, videos, removed, sessionState,
                   startsInTick, startFailed, lastProcess, faults>>
    /\ UNCHANGED <<svcVars, extVars>>

\* one iteration of scheduler_worker, whose while tests the stop event
SchedulerWorkerStep ==
    /\ ~orchestrator_stop_event
    /\ SchedulerTick

\* one iteration of recording_worker with its parse of the window: strptime
\* raises ValueError on a malformed time before anything is decided, and
\* the except branch of the loop runs; the booking file is left in place
RecordingWorkerStep ==
    /\ ~orchestrator_stop_event
    /\ IF load_booking \in MalformedBookings
       THEN LoopError("recording")
       ELSE RecordingTick

NextMalformed ==
    \/ BookingInserted
    \/ SchedulerWorkerStep
    \/ RecordingWorkerStep
    \/ ClockTick

SpecMalformed == InitSvc /\ [][NextMalformed]_vars

(***************************************************************************)
(* The orchestrator minute by minute, with no failing step.  The loops of  *)
(* scheduler_worker and recording_worker wait 5 s and 1 s between their    *)
(* iterations, so each runs many times in a minute of the clock.  After an *)
(* iteration of the scheduler, one of the recorder, and one more of each,  *)
(* further iterations in the same minute change nothing.                   *)
(***************************************************************************)
\* one iteration of scheduler_worker, on the state of the service
scheduler_worker(sv, next_booking) ==
    IF sv.current_booking_file = None
    THEN [sv EXCEPT !.current_booking_file = next_booking]
    ELSE sv

\* one iteration of recording_worker at minute t in which nothing fails
recording_worker(sv, t) ==
    LET booking == sv.current_booking_file IN
    IF booking = None
    THEN (IF sv.is_recording THEN stop_recording("ok", sv) ELSE sv)
    ELSE IF SvcBookingData[booking].start_time <= t
            /\ t < SvcBookingData[booking].end_time
    THEN start_recording(booking, "ok", sv)
    ELSE IF t >= SvcBookingData[booking].end_time
    THEN [(IF sv.is_recording THEN stop_recording("ok", sv) ELSE sv)
            EXCEPT !.current_booking_file = None]
    ELSE sv

\* an iteration of the scheduler followed by one of the recorder
worker_iterations(sv) ==
    recording_worker(scheduler_worker(sv, get_next_booking(TRUE)), clock)

\* a minute of the running orchestrator
OrchestratorMinute ==
    /\ ~orchestrator_stop_event
    /\ clock < MaxClock
    /\ InstallService(worker_iterations(worker_iterations(ServiceState)))
    /\ clock' = clock + 1
    /\ UNCHANGED <<queue_file, map_file, worker, completed, uploadCount,
                   lastAttempt, restarts, attemptsMade, extVars>>
    /\ UNCHANGED <<now, tickTime, store, recording_active, current_booking,
                   camera_process, blobs, videos, removed, startsInTick,
                   startFailed, lastProcess>>

\* a user books the camera for a window that lies in the future
ReservationInserted ==
    /\ \E b \in Bookings \ (store \cup completed) :
         /\ SvcBookingData[b].start_time > clock
         /\ store' = store \cup {b}
    /\ UNCHANGED <<now, tickTime, recording_active, current_booking,
                   camera_process, files, blobs, videos, removed, sessionState,
                   startsInTick, startFailed, lastProcess, faults>>
    /\ UNCHANGED <<svcVars, extVars>>

NextMinutes ==
    \/ OrchestratorMinute
    \/ ReservationInserted
    \/ AddToUploadQueue
    \/ WorkerGet(UploadWorker)
    \/ WorkerUploadBlob(UploadWorker)
    \/ WorkerInsertVideo(UploadWorker)
    \/ WorkerFinish(UploadWorker)

SpecMinutes == InitSvc /\ [][NextMinutes]_vars

\* the windows of a set of bookings are pairwise disjoint
WindowsDisjoint(bs) ==
    \A c, d \in bs :
        c # d => \/ SvcBookingData[c].end_time <= SvcBookingData[d].start_time
                 \/ SvcBookingData[d].end_time <= SvcBookingData[c].start_time

(***************************************************************************)
(* The writers of the system_status row in the threaded service.           *)
(***************************************************************************)
\* one iteration of recording_worker with the update_system_status of
\* CameraService.start_recording (is_recording=True, after a start that
\* succeeded) and of CameraService.stop_recording (is_recording=False, when
\* the stop did not raise before it)
RecordingTickStatus ==
    /\ RecordingTickSteps
    /\ \E stored \in BOOLEAN :
         system_status' =
            IF ~is_recording /\ is_recording'
            THEN update_system_status(TRUE, stored, system_status)
            ELSE IF is_recording /\ ~is_recording' /\ faults' = faults
            THEN update_system_status(FALSE, stored, system_status)
            ELSE system_status
    /\ UNCHANGED <<attemptsMade, saving, shutVars, sigVars, supVars, start_ret,
                   stop_pc>>

\* status_worker: update_system_status(is_recording=camera_service.is_recording, ..)
StatusWorkerPublish ==
    /\ ~orchestrator_stop_event
    /\ \E stored \in BOOLEAN :
         system_status' = update_system_status(is_recording, stored, system_status)
    /\ UNCHANGED <<mainVars, svcVars, saving, shutVars, sigVars, supVars,
                   start_ret, stop_pc>>

\* the end of an upload with its update_system_status(storage_used=..), for
\* which is_recording takes its default, False
WorkerFinishStatus(w) ==
    /\ WorkerFinishSteps(w)
    /\ \E stored \in BOOLEAN :
         system_status' = update_system_status(FALSE, stored, system_status)
    /\ UNCHANGED <<attemptsMade, saving, shutVars, sigVars, supVars, start_ret,
                   stop_pc>>

\* the heartbeat thread that utils starts when it is imported: every
\* interval it calls update_system_status() with no argument
HeartbeatThreadWrite ==
    /\ ~exited
    /\ \E stored \in BOOLEAN :
         system_status' = update_system_status(FALSE, stored, system_status)
    /\ UNCHANGED <<mainVars, svcVars, saving, shutVars, sigVars, supVars,
                   start_ret, stop_pc>>

NextStatus ==
    \/ SchedulerTick
    \/ RecordingTickStatus
    \/ ClockTick
    \/ StatusWorkerPublish
    \/ HeartbeatThreadWrite
    \/ AddToUploadQueue
    \/ WorkerGet(UploadWorker)
    \/ WorkerUploadBlob(UploadWorker)
    \/ WorkerInsertVideo(UploadWorker)
    \/ WorkerFinishStatus(UploadWorker)

SpecStatus == InitSvc /\ [][NextStatus]_vars

(***************************************************************************)
(* CameraService.stop_recording called by two threads.  The method tests   *)
(* is_recording and sets it to False in separate statements, under no      *)
(* lock, so the test of one call can come between those of the other.      *)
(***************************************************************************)
\* an iteration of recording_worker before the end of the saved booking
RecordingTickBeforeEnd ==
    /\ ~orchestrator_stop_event
    /\ load_booking # None
    /\ clock < SvcBookingData[load_booking].end_time
    /\ RecordingTick

\* thread t comes to its call of stop_recording: recording_worker in the
\* iteration that finds the booking ended, EZRECOrchestrator.stop after it
\* has set the stop event; the caller and the method test is_recording
StopEnter(t) ==
    /\ stop_pc[t] = "idle"
    /\ t = "recording"
         => /\ ~orchestrator_stop_event
            /\ load_booking # None
            /\ clock >= SvcBookingData[load_booking].end_time
    /\ orchestrator_stop_event' = (orchestrator_stop_event \/ t = "shutdown")
    /\ stop_pc' = [stop_pc EXCEPT ![t] = IF is_recording THEN "body" ELSE "returned"]
    /\ UNCHANGED <<mainVars, svcVars, saving, shutVars, sigVars, error_count,
                   orchestrator_is_running, status_pc, camera_stalled,
                   start_ret, system_status>>

\* thread t runs stop_recording from self.is_recording = False to its return
StopBody(t) ==
    /\ stop_pc[t] = "body"
    /\ stop_pc' = [stop_pc EXCEPT ![t] = "returned"]
    /\ \E out \in {"ok", "raise"} :
         InstallService(stop_recording(out, [ServiceState EXCEPT !.is_recording = TRUE]))
    /\ UNCHANGED <<clock, queue_file, map_file, worker, completed, uploadCount,
                   lastAttempt, restarts, attemptsMade, saving, shutVars,
                   sigVars, supVars, start_ret, system_status>>
    /\ UNCHANGED <<now, tickTime, store, recording_active, current_booking,
                   camera_process, blobs, videos, removed, startsInTick,
                   startFailed, lastProcess>>

NextStopRace ==
    \/ SchedulerTick
    \/ RecordingTickBeforeEnd
    \/ ClockTick
    \/ \E t \in StopThreads : StopEnter(t)
    \/ \E t \in StopThreads : StopBody(t)

SpecStopRace == InitSvc /\ [][NextStopRace]_vars

(***************************************************************************)
(* The controller of src/orchestrator_fixed.py: main_orchestrator_loop     *)
(* over the same bookings table, recordings directory and storage as       *)
(* EZRECMain.  Its camera is the object get_camera_instance returns.       *)
(***************************************************************************)
FixedStartTolerance == 30
FixedLookahead == 60
FixedSleep == 1

\* get_upcoming_bookings of orchestrator_fixed: the rows of today whose
\* start_time lies after now.time() and not after soon.time(), [] when the
\* query fails
fixed_get_upcoming_bookings(fetch_ok) ==
    IF fetch_ok
    THEN {b \in store : /\ BookingData[b].date = Today(now)
                        /\ BookingData[b].start_time > TimeOfDay(now)
                        /\ BookingData[b].start_time <= TimeOfDay(now + FixedLookahead)}
    ELSE {}

\* should_start_recording of orchestrator_fixed
fixed_should_start_recording(booking, active) ==
    LET time_diff == WindowStart(booking) - now
    IN -FixedStartTolerance <= time_diff /\ time_diff <= FixedStartTolerance /\ ~active

\* should_stop_recording of orchestrator_fixed
fixed_should_stop_recording(booking) == now >= WindowEnd(booking)

\* camera.start_recording returns True, or returns False or raises
FixedStartOutcomes == {"ok", "fail"}

\* start_booking_recording of orchestrator_fixed, with its
\* handle_recording_error
fixed_start_booking_recording(booking, out, st) ==
    LET st1 == [st EXCEPT !.current_booking = booking,
                          !.attempted = @ \cup {booking}]
    IN IF out = "ok"
       THEN [st1 EXCEPT !.recording_active = TRUE,
                        !.camera_process = booking,
                        !.files = IF booking \notin SeqToSet(@)
                                  THEN Append(@, booking) ELSE @,
                        !.sessionState[booking] = "Active",
                        !.starts = @ + 1]
       ELSE [st1 EXCEPT !.sessionState[booking] = "Failed",
                        !.failed_starts = @ \cup {booking},
                        !.used = @ + 1]

\* the rows of a query in the order of ORDER BY start_time ASC
RECURSIVE ByStartTime(_)
ByStartTime(rows) ==
    IF rows = {} THEN <<>>
    ELSE LET first == CHOOSE b \in rows :
                        \A c \in rows : BookingData[b].start_time <= BookingData[c].start_time
         IN <<first>> \o ByStartTime(rows \ {first})

\* the for loop of main_orchestrator_loop over upcoming_bookings
RECURSIVE FixedStartLoop(_, _, _)
FixedStartLoop(order, outs, st) ==
    IF order = <<>> THEN st
    ELSE LET booking == Head(order)
             st2 == IF fixed_should_start_recording(booking, st.recording_active)
                    THEN fixed_start_booking_recording(booking, outs[booking], st)
                    ELSE st
         IN FixedStartLoop(Tail(order), outs, st2)

\* process_completed_recording of orchestrator_fixed: remove_booking, then
\* upload_video_to_storage, then cleanup_local_recording
fixed_process_completed_recording(booking, path, so, st) ==
    IF path \notin SeqToSet(st.files) THEN st
    ELSE LET stored == so.upload # "no_blob"
             success == UploadSucceeded(so.upload)
         IN [st EXCEPT
               !.store = IF so.remove = "ok" THEN @ \ {booking} ELSE @,
               !.removed = IF so.remove = "ok" THEN @ \cup {booking} ELSE @,
               !.blobs = IF stored THEN @ \cup {path} ELSE @,
               !.videos[path] = IF so.upload = "ok" THEN @ + 1 ELSE @,
               !.files = IF success /\ so.unlink = "ok" THEN RemoveFromSeq(@, path) ELSE @,
               !.lastProcess = [booking |-> booking, path |-> path,
                                upload |-> so.upload, remove |-> so.remove,
                                unlink |-> so.unlink]]

\* stop_booking_recording of orchestrator_fixed
fixed_stop_booking_recording(so, st) ==
    LET booking == st.current_booking
        st1 == IF so.cam = "ok"
               THEN fixed_process_completed_recording(
                        booking, booking, so, [st EXCEPT !.camera_process = None])
               ELSE st
    IN [st1 EXCEPT !.recording_active = FALSE,
                   !.current_booking = None,
                   !.sessionState[booking] =
                       IF so.cam = "ok" /\ booking \in SeqToSet(st.files)
                       THEN "Finalized" ELSE "Failed"]

\* the failures a stop outcome of orchestrator_fixed stands for
FixedStopFaults(so) ==
    (IF so.cam = "raise" THEN 1 ELSE 0)
    + (IF so.upload # "ok" THEN 1 ELSE 0)
    + (IF so.remove = "fail" THEN 1 ELSE 0)
    + (IF so.unlink = "fail" THEN 1 ELSE 0)

\* the parts of a stop outcome that the stop does not reach are "ok"
FixedStopCanonical(so) ==
    /\ so.cam = "raise" => so.upload = "ok" /\ so.remove = "ok" /\ so.unlink = "ok"
    /\ ~UploadSucceeded(so.upload) => so.unlink = "ok"

FixedInstall(st, extra, jitter) ==
    /\ faults + st.used + extra <= MaxFaults
    /\ faults' = faults + st.used + extra
    /\ recording_active' = st.recording_active
    /\ current_booking' = st.current_booking
    /\ camera_process' = st.camera_process
    /\ files' = st.files
    /\ blobs' = st.blobs
    /\ videos' = st.videos
    /\ store' = st.store
    /\ removed' = st.removed
    /\ sessionState' = st.sessionState
    /\ lastProcess' = st.lastProcess
    /\ startsInTick' = st.starts
    /\ startFailed' = startFailed \cup st.failed_starts
    /\ tickTime' = now
    /\ now' = now + FixedSleep + jitter

\* one iteration of main_orchestrator_loop, the sleep at its end included
FixedLoopTick ==
    /\ main_pc = "loop"
    /\ is_running
    /\ \E t \in StartInstants : t <= now /\ now <= t + Horizon
    /\ UNCHANGED <<svcVars, extVars>>
    /\ \E fetch_ok \in FetchResults, jitter \in 0..MaxJitter :
       LET upcoming == fixed_get_upcoming_bookings(fetch_ok)
           st0 == [ControllerState EXCEPT !.used = IF fetch_ok THEN 0 ELSE 1] IN
       \E outs \in [upcoming -> FixedStartOutcomes] :
       LET st == FixedStartLoop(ByStartTime(upcoming), outs, st0) IN
         /\ \A b \in upcoming \ st.attempted : outs[b] = "ok"
         /\ faults + st.used <= MaxFaults
         /\ IF st.current_booking # None /\ st.recording_active
               /\ fixed_should_stop_recording(st.current_booking)
            THEN \E so \in {x \in StopOutcomes : FixedStopCanonical(x)} :
                   FixedInstall(fixed_stop_booking_recording(so, st), FixedStopFaults(so), jitter)
            ELSE FixedInstall(st, 0, jitter)

NextFixed == FixedLoopTick

\* EZRECOrchestrator of orchestrator_fixed.py
SpecFixed == Init /\ [][NextFixed]_vars

(***************************************************************************)
(* Properties of EZRECMain, checked under Spec.                            *)
(***************************************************************************)
ActiveSessions == {b \in Bookings : sessionState[b] = "Active"}

\* the instants at which a booking may be started: from PreStartWindow
\* seconds before its start to its end
InStartWindow(b, t) ==
    WindowStart(b) - PreStartWindow <= t /\ t <= WindowEnd(b)

C2_StopByWindowEnd ==
    \A b \in Bookings : sessionState[b] = "Active" => tickTime < WindowEnd(b)

\* C3, as the specification states it: a booking this program removed from
\* the remote table has its recording in the bucket and a row in videos.
C3_RemovedOnlyAfterStored ==
    \A b \in removed : b \in blobs /\ videos[b] >= 1

\* C6, as the specification states it: when the latest
\* process_completed_recording deleted the local file, the blob upload, the
\* metadata insert and the removal of the booking had each succeeded.
C6_UnlinkOnlyAfterAllSteps ==
    (lastProcess.path # None /\ lastProcess.path \notin SeqToSet(files))
        => /\ lastProcess.upload = "ok"
           /\ lastProcess.remove = "ok"
           /\ lastProcess.path \in blobs
           /\ videos[lastProcess.path] >= 1
           /\ lastProcess.booking \in removed

\* C7, as the specification states it, for the runs with one booking and no
\* failing step: once its recording has started and an iteration has run at
\* or after window_end, no local file is left, the booking is gone from the
\* table and exactly one videos row exists for it.
C7_EndState ==
    \A b \in Bookings :
        (store \cup removed = {b} /\ faults = 0 /\ sessionState[b] # "none"
            /\ tickTime >= WindowEnd(b))
        => /\ files = <<>>
           /\ b \notin store
           /\ videos[b] = 1
           /\ sessionState[b] = "Finalized"

C4_FinalizedTaskPersisted ==
    \A b \in Bookings :
        (sessionState[b] = "Finalized" /\ videos[b] = 0)
        => TasksFor(b, get_upload_queue(queue_file)) # {}

\* C5, as the specification states it: a restart that comes after a session
\* was finalized and before its file was uploaded leaves the worker with the
\* task of that file, to attempt it again.
C5_RestartResumesUpload ==
    [][restarts' = restarts + 1
        => \A b \in Bookings :
             (sessionState[b] = "Finalized" /\ b \in SeqToSet(files)
                 /\ uploadCount[b] = 0)
             => TasksFor(b, upload_queue') # {}]_vars

C10_FailedAttemptRequeued ==
    lastAttempt.failed # None
    => \E i \in TasksFor(lastAttempt.task.file_path, upload_queue) :
          TaskAttempts(upload_queue[i]) = TaskAttempts(lastAttempt.task) + 1

\* C11, as the specification states it: no recording is attempted more
\* often than UPLOAD_RETRY_COUNT times.  attemptsMade counts the attempts
\* up to one more than that.
C11_AttemptsBounded ==
    \A b \in Bookings : attemptsMade[b] <= UPLOAD_RETRY_COUNT

\* C14: when several upload workers drain the queue, a task is in the hand
\* of at most one worker, and a task in a worker's hand is not in the queue.
C14_OneWorkerPerTask ==
    /\ \A v, w \in Workers :
          (v # w /\ worker[v].pc # "idle" /\ worker[w].pc # "idle")
          => worker[v].task.file_path # worker[w].task.file_path
    /\ \A w \in Workers :
          worker[w].pc # "idle"
          => TasksFor(worker[w].task.file_path, upload_queue) = {}

\* C14 witness: two workers are uploading at the same time.
C14_Witness ==
    /\ worker["w1"].pc \in {"got", "uploaded"}
    /\ worker["w2"].pc \in {"got", "uploaded"}

\* C12, as the specification states it: whenever no worker holds a task and
\* no write of the queue file is under way, the queue file holds exactly the
\* tasks of the in-memory queue.
C12_FileMirrorsQueue ==
    ((\A w \in Workers : worker[w].pc = "idle") /\ ~saving.open)
    => load_upload_queue(queue_file) = upload_queue

\* C13, as the specification states it: when no write of the queue file is
\* under way (none was begun, one was completed, or the process was killed
\* during one), the file is not empty or partially written.
C13_QueueFileNeverPartial ==
    ~saving.open => queue_file.state # "truncated"

\* C15, as the specification states it: when the service has shut down, every
\* task that was waiting in the queue or was in the worker's hand is in the
\* persisted queue.
C15_PendingSurvivesShutdown ==
    exited =>
      /\ \A i \in 1..Len(upload_queue) :
            TasksFor(upload_queue[i].file_path, get_upload_queue(queue_file)) # {}
      /\ \A w \in Workers :
            worker[w].pc # "idle"
            => TasksFor(worker[w].task.file_path, get_upload_queue(queue_file)) # {}

\* C16, as the specification states it: when the process has ended after a
\* stop signal, no session is Active, no recording is running and the
\* capture device is released.
C16_StoppedAndReleasedAtExit ==
    main_pc = "exited"
    => /\ \A b \in Bookings : sessionState[b] # "Active"
       /\ ~recording_active
       /\ camera_process = None

\* C17, as the specification states it: when the process has ended, the
\* snapshot stored last has the process state "stopped".
C17_LastSnapshotStopped ==
    main_pc = "exited" => remote_status = "stopped"

\* C18, as the specification states it: the status loop is never inside a
\* call of the capture device.
C18_StatusLoopOffTheDevice ==
    status_pc # "capture"

\* C19, as the specification states it: whatever the number of failed
\* cycles, the periodic loops are not stopped by it.
C19_ErrorsNeverStopLoops ==
    orchestrator_is_running => ~orchestrator_stop_event

\* C19, amended: failed cycles are counted and the loops go on while the
\* count is below max_errors; the failed cycle that brings the count to
\* max_errors sets the stop event, which ends every loop.
C19_LoopsStopAtMaxErrors ==
    orchestrator_is_running
    => (orchestrator_stop_event <=> error_count >= max_errors)

\* C19 witness: one failed cycle short of max_errors the loops still run.
C19_Witness ==
    /\ error_count = max_errors - 1
    /\ ~orchestrator_stop_event
    /\ status_pc = "publish"

C21_SecondAcquireFails ==
    \A i \in 1..Len(start_ret) : ~start_ret[i].ok

\* C22, as the specification states it: a recording on disk whose session
\* has ended is referenced by exactly one task, waiting in the queue or in a
\* worker's hand.
C22_OneTaskPerFile ==
    \A b \in SeqToSet(files) :
        sessionState[b] # "Active"
        => Cardinality(TasksFor(b, upload_queue))
             + Cardinality({w \in Workers : worker[w].task.file_path = b}) = 1

\* C23, as the specification states it: the reservation that an iteration
\* starts to record has the earliest start among the reservations that were
\* eligible in that iteration.
C23_EarliestEligibleRecorded ==
    [][\A b \in Bookings :
          (sessionState[b] # "Active" /\ sessionState'[b] = "Active")
          => \A c \in Eligible(get_upcoming_bookings(TRUE)) :
                BookingData[b].start_time <= BookingData[c].start_time]_vars

\* the step starts a recording of b: its session becomes Active, or, when
\* the same iteration stops it again, Finalized
StartedInStep(b) ==
    /\ sessionState[b] \notin {"Active", "Finalized"}
    /\ sessionState'[b] \in {"Active", "Finalized"}

\* C24, as the specification states it: a reservation is started only from
\* the pre-start buffer before its window to before the end of its window,
\* and only while no session is Active.
C24_StartsBeforeWindowEnd ==
    [][\A b \in Bookings :
          StartedInStep(b)
          => /\ WindowStart(b) - PreStartWindow <= now
             /\ now < WindowEnd(b)
             /\ ActiveSessions = {}]_vars

\* C24, amended: a reservation is started only from the pre-start buffer
\* before its window to the end of its window, the instant of the end
\* included, and only while no session is Active.
C24_StartsWithinWindow ==
    [][\A b \in Bookings :
          StartedInStep(b)
          => /\ WindowStart(b) - PreStartWindow <= now
             /\ now <= WindowEnd(b)
             /\ ActiveSessions = {}]_vars

\* C24 witness: a reservation was started, and stopped, in the iteration at
\* the very end of its window.
C24_Witness ==
    \E b \in Bookings :
        /\ sessionState[b] = "Finalized"
        /\ startsInTick = 1
        /\ lastProcess.booking = b
        /\ tickTime = WindowEnd(b)

\* C25, as the specification states it: a start has reported success, so
\* that the controller records a reservation, only when the output file of
\* the recording was seen on disk.
C25_ActiveOnlyWithFile ==
    [][\A b \in Bookings :
          (sessionState[b] # "Active" /\ sessionState'[b] = "Active"
             /\ recording_active' /\ current_booking' = b)
          => b \in SeqToSet(files')]_vars

\* C26, as the specification states it: whenever the controller is not
\* recording, after a stop in any of its outcomes, the capture device is
\* released.
C26_ReleasedWhenNotRecording ==
    ~recording_active => camera_process = None

\* C27, as the specification states it: a stop hands a file to upload only
\* when the file of the stopped session exists: the file of the latest
\* process_completed_recording is the file of the session it was run for.
C27_UploadOnlyOwnFile ==
    lastProcess.booking # None => lastProcess.path = lastProcess.booking

\* C28, as the specification states it: an iteration of the main loop that
\* runs without a failure while the reservation being recorded is no longer
\* in the remote table ends the session.
C28_CancelledIsStopped ==
    [][\A b \in Bookings :
         (/\ sessionState[b] = "Active"
          /\ current_booking = b
          /\ b \notin store
          /\ tickTime' # tickTime
          /\ faults' = faults)
         => sessionState'[b] # "Active"]_vars

\* C29, as the specification states it: a reservation with a malformed
\* window does not terminate the loops of the service.
C29_MalformedNeverStopsLoops ==
    ~orchestrator_stop_event

\* C30, as the specification states it: a worker whose task has its blob
\* stored at the destination key already does not upload it again and goes
\* on to the insert of the videos row.
C30_StoredBlobIsSkipped ==
    [][\A w \in Workers :
         (/\ worker[w].pc = "got"
          /\ worker[w].task.file_path \in blobs
          /\ worker'[w].pc # "got")
         => (worker'[w].pc = "uploaded" /\ uploadCount' = uploadCount)]_vars

\* C31, as the specification states it: the queue that a start of the
\* service loads from the queue file holds, item for item, the tasks that
\* were written to the file, with their file paths and reservation ids.
C31_LoadReturnsSavedTasks ==
    [][restarts' = restarts + 1
        => upload_queue' = get_upload_queue(queue_file)]_vars

\* C32, as the specification states it: once the error count has reached
\* max_errors the shutdown is complete: the loops are stopped, the camera
\* service is stopped, is_running is false and the process has exited.
C32_ThresholdShutsDown ==
    error_count >= max_errors
    => (orchestrator_stop_event /\ stop_event /\ ~orchestrator_is_running /\ exited)

\* C33, as the specification states it: when an enqueue by the controller
\* has written the queue file and a worker has put a failed task back, and
\* neither is still under way, the file holds the task that was put back
\* beside the one that was enqueued.
C33_EnqueueAndRequeuePersisted ==
    (/\ lastAttempt.failed \in {"blob", "insert"}
     /\ ~saving.open
     /\ queue_file.state = "written"
     /\ restarts = 0)
    => TasksFor(lastAttempt.task.file_path, get_upload_queue(queue_file)) # {}

\* C34, as the specification states it: once a session has been stopped and
\* finalized and nothing is being recorded, the capture device is ready for
\* the start of the next recording.
C34_ReadyAfterFinalize ==
    ((\E b \in Bookings : sessionState[b] = "Finalized")
        /\ ~is_recording /\ ~interface.recording)
    => is_camera_ready(interface)

\* C35, as the specification states it: when the windows of the reservations
\* in the table do not overlap and no step has failed, a reservation whose
\* window has passed was recorded: it did not stay without a session.
C35_EveryReservationRecorded ==
    (WindowsDisjoint(store) /\ faults = 0)
    => \A b \in store :
          clock >= SvcBookingData[b].end_time => sessionState[b] # "none"

\* C36, as the specification states it: every write of the system_status row
\* stores, as is_recording, the recording state of the camera service at the
\* time of the write.
C36_SnapshotCarriesRecordingState ==
    [][system_status' # system_status
        => system_status'.is_recording = is_recording']_vars

\* C37, as the specification states it: of the calls of stop_recording made
\* for one recording, at most one runs the body that stops the capture,
\* releases the interface and queues the file.
C37_StopBodyRunsOnce ==
    Cardinality({i \in 1..Len(stop_ret) : stop_ret[i].ok}) <= 1

\* C38, as the specification states it: a file that an iteration uploads to
\* the bucket or deletes from the disk is the recording of the reservation
\* for which the iteration processed it.
C38_OwnFileUploadedAndDeleted ==
    [][\A f \in (blobs' \ blobs) \cup (SeqToSet(files) \ SeqToSet(files')) :
          lastProcess'.booking = f]_vars

\* C39: at the end of every iteration of the controller's loop,
\* recording_active is set exactly when current_booking is set, whatever
\* starts and stops have succeeded or failed.
C39_ActiveIffBound == recording_active <=> current_booking # None

====
